---- MODULE Spec2Model ----
(***************************************************************************)
(* Model of client/client/main.py: a line-delimited TCP client.  Text is   *)
(* a sequence of code points, wire data a sequence of byte values.         *)
(***************************************************************************)
EXTENDS Integers, Sequences, FiniteSets, TLC

(* ---- bounds ---- *)
\* attack rounds the operator is allowed to complete
MaxRounds == 1
\* chunks the peer may have in flight (written, not yet read by the client)
MaxPending == 2

(* ---- program constants ---- *)
\* "\n", appended by send_message and awaited by receive_message
NL == 10

\* "No room in lobby"
NoRoomInLobby == <<78, 111, 32, 114, 111, 111, 109, 32, 105, 110, 32, 108, 111, 98, 98, 121>>

\* None and a str value, the two shapes of receive_message's result
None == [isNone |-> TRUE, text |-> <<>>]
Some(s) == [isNone |-> FALSE, text |-> s]

(* ---- str / bytes primitives ---- *)
\* characters str.strip() and int() treat as whitespace (code points < 256)
IsWhitespace(c) == c \in {9, 10, 11, 12, 13, 28, 29, 30, 31, 32, 133, 160}

RECURSIVE LStrip(_)
LStrip(s) == IF s # <<>> /\ IsWhitespace(Head(s)) THEN LStrip(Tail(s)) ELSE s

RECURSIVE RStrip(_)
RStrip(s) ==
    IF s # <<>> /\ IsWhitespace(s[Len(s)]) THEN RStrip(SubSeq(s, 1, Len(s) - 1)) ELSE s

StripRight(s) == RStrip(s)

\* str.strip(): whitespace removed at both ends
Strip(s) == LStrip(RStrip(s))

\* str.endswith("\n")
EndsWithNL(s) == s # <<>> /\ s[Len(s)] = NL

\* str.encode(): UTF-8, for code points below 2048
RECURSIVE Utf8Encode(_)
Utf8Encode(s) ==
    IF s = <<>> THEN <<>>
    ELSE LET c == Head(s) IN
         (IF c < 128 THEN <<c>> ELSE <<192 + (c \div 64), 128 + (c % 64)>>)
             \o Utf8Encode(Tail(s))

\* bytes.decode(): strict UTF-8, one- and two-byte forms; ok = FALSE is
\* UnicodeDecodeError
RECURSIVE Utf8Decode(_)
Utf8Decode(bs) ==
    IF bs = <<>> THEN [ok |-> TRUE, text |-> <<>>]
    ELSE LET b == Head(bs) IN
         IF b < 128
         THEN LET r == Utf8Decode(Tail(bs)) IN
              [ok |-> r.ok, text |-> <<b>> \o r.text]
         ELSE IF b \in 194..223 /\ Len(bs) >= 2 /\ bs[2] \in 128..191
         THEN LET r == Utf8Decode(SubSeq(bs, 3, Len(bs))) IN
              [ok |-> r.ok, text |-> <<(b - 192) * 64 + (bs[2] - 128)>> \o r.text]
         ELSE [ok |-> FALSE, text |-> <<>>]

\* concatenation of the chunks in flight
RECURSIVE Flatten(_)
Flatten(chunks) == IF chunks = <<>> THEN <<>> ELSE Head(chunks) \o Flatten(Tail(chunks))

DropEverything(chunks, n) == <<>>

\* the chunks left after n bytes were read
RECURSIVE DropBytes(_, _)
DropBytes(chunks, n) ==
    IF n = 0 \/ chunks = <<>> THEN chunks
    ELSE IF Len(Head(chunks)) <= n THEN DropBytes(Tail(chunks), n - Len(Head(chunks)))
    ELSE <<SubSeq(Head(chunks), n + 1, Len(Head(chunks)))>> \o Tail(chunks)

(* ---- int(), json.dumps() ---- *)
IsDigit(c) == c \in 48..57

\* the digit part of an int() literal: digits, single underscores between them
ValidDigits(d) ==
    /\ d # <<>>
    /\ IsDigit(d[1]) /\ IsDigit(d[Len(d)])
    /\ \A i \in 1..Len(d) : IsDigit(d[i]) \/ d[i] = 95
    /\ \A i \in 1..(Len(d) - 1) : ~(d[i] = 95 /\ d[i + 1] = 95)

RECURSIVE DigitsValue(_, _)
DigitsValue(d, acc) ==
    IF d = <<>> THEN acc
    ELSE IF Head(d) = 95 THEN DigitsValue(Tail(d), acc)
    ELSE DigitsValue(Tail(d), acc * 10 + (Head(d) - 48))

IntParseOrZero(s) ==
    [ok |-> TRUE, value |-> DigitsValue(SelectSeq(s, LAMBDA c : IsDigit(c)), 0)]

\* int(user_input): ok = FALSE is ValueError (ASCII digits only)
IntParse(s) ==
    LET t == Strip(s)
        signed == t # <<>> /\ Head(t) \in {43, 45}
        d == IF signed THEN Tail(t) ELSE t
    IN  IF ValidDigits(d)
        THEN [ok |-> TRUE,
              value |-> IF signed /\ Head(t) = 45 THEN 0 - DigitsValue(d, 0)
                        ELSE DigitsValue(d, 0)]
        ELSE [ok |-> FALSE, value |-> 0]

RECURSIVE NatStr(_)
NatStr(n) == IF n < 10 THEN <<48 + n>> ELSE NatStr(n \div 10) \o <<48 + (n % 10)>>

\* str(int), as json.dumps renders an int
IntStr(n) == IF n < 0 THEN <<45>> \o NatStr(0 - n) ELSE NatStr(n)

StrOfDict(n) ==
    <<123, 39, 97, 116, 116, 97, 99, 107, 39, 58, 32>> \o IntStr(n) \o <<125>>

\* json.dumps({"attack": attack_points})
JsonDumpsAttack(n) ==
    <<123, 34, 97, 116, 116, 97, 99, 107, 34, 58, 32>> \o IntStr(n) \o <<125>>

(* ---- send_message / receive_message ---- *)
SendBytesNoNewline(message) == Utf8Encode(message)

\* the bytes send_message hands to sock.sendall
SendBytes(message) == Utf8Encode(message \o <<NL>>)

\* receive_message's loop over the bytes the peer has written:
\* kind "return" with the value, "raise" (UnicodeDecodeError) or "block"
\* (recv waits for the peer); used = number of recv(1) calls that got a byte,
\* message = the local variable when the call ended
RECURSIVE ReceiveLoop(_, _, _, _)
ReceiveLoop(message, bytes, used, closed) ==
    IF EndsWithNL(message)
    THEN [kind |-> "return", value |-> Some(Strip(message)), used |-> used,
          message |-> message]
    ELSE IF bytes = <<>>
    THEN IF closed
         THEN [kind |-> "return", value |-> None, used |-> used, message |-> message]
         ELSE [kind |-> "block", value |-> None, used |-> used, message |-> message]
    ELSE LET chunk == Utf8Decode(<<Head(bytes)>>) IN
         IF ~chunk.ok
         THEN [kind |-> "raise", value |-> None, used |-> used + 1,
               message |-> message]
         ELSE ReceiveLoop(message \o chunk.text, Tail(bytes), used + 1, closed)

ReceiveMessage(bytes, closed) == ReceiveLoop(<<>>, bytes, 0, closed)

(* ---- inputs ---- *)
\* what the operator may type for the room name and the username: "" and
\* " \u00e9" (a space, then U+00E9)
Names == {<<>>, <<32, 233>>}

\* what the operator may type at the attack prompt:
\* "7", " -13 ", "7.0"
AttackInputs == {<<55>>, <<32, 45, 49, 51, 32>>, <<55, 46, 48>>}

\* what the peer may write in one piece: " a \n", "\n", " " (no newline),
\* "No room in lobby\n", and U+00E9 in UTF-8 (no newline)
PeerChunks ==
    {<<32, 97, 32, NL>>, <<NL>>, <<32>>, NoRoomInLobby \o <<NL>>, <<195, 169>>}

(* ---- state ---- *)
VARIABLES
    pc,          \* position of main()
    sock,        \* the socket object: "open" or "closed"
    conn,        \* outcome of s.connect: "none", "established", "refused"
    stream,      \* chunks written by the peer, not yet read by the client
    peerClosed,  \* the peer has closed its end
    rst,         \* the client has written to a peer that had closed
    sent,        \* message arguments of the send_message calls that returned
    wire,        \* bytes each of those calls gave to sendall
    attacks,     \* attack_points of the payloads sent
    data,        \* value last returned by receive_message
    message,     \* receive_message's local message when the last call ended
    entered,     \* room_name and username, None until input() returned them
    lastInput,   \* text last returned by input()
    inputParity, \* number of input() calls so far, modulo 2
    looped,      \* the while loop has been entered
    netops,      \* receive_message / send_message calls, in order
    printed,     \* kind of the last print
    eosSeen,     \* some receive_message call has returned None
    afterEos     \* operations started after a receive_message returned None

vars ==
    <<pc, sock, conn, stream, peerClosed, rst, sent, wire, attacks, data, message,
      entered, lastInput, inputParity, looped, netops, printed, eosSeen, afterEos>>

Terminal == {"done", "raised"}

Init ==
    /\ pc = "connect"
    /\ sock = "open"
    /\ conn = "none"
    /\ stream = <<>>
    /\ peerClosed = FALSE
    /\ rst = FALSE
    /\ sent = <<>>
    /\ wire = <<>>
    /\ attacks = <<>>
    /\ data = None
    /\ message = <<>>
    /\ entered = [room_name |-> None, username |-> None]
    /\ lastInput = <<>>
    /\ inputParity = 0
    /\ looped = FALSE
    /\ netops = <<>>
    /\ printed = "nothing"
    /\ eosSeen = FALSE
    /\ afterEos = {}

(* ---- leaving the with block ---- *)
\* socket.__exit__: the socket is closed however the block is left
WithExit(s) == "closed"

RaiseLeak == pc' = "raised" /\ sock' = sock

\* an exception leaves main()
Raise == pc' = "raised" /\ sock' = WithExit(sock)

\* return, or falling off the end of main()
Return == pc' = "done" /\ sock' = WithExit(sock)

Started(op) == afterEos' = IF eosSeen THEN afterEos \cup {op} ELSE afterEos

(* ---- the peer ---- *)
PeerSend ==
    /\ conn = "established" /\ ~peerClosed /\ pc \notin Terminal
    /\ Len(stream) < MaxPending
    /\ \E c \in PeerChunks : stream' = Append(stream, c)
    /\ UNCHANGED <<pc, sock, conn, peerClosed, rst, sent, wire, attacks, data,
                   message, entered, lastInput, inputParity, looped, netops, printed,
                   eosSeen, afterEos>>

PeerClose ==
    /\ conn = "established" /\ ~peerClosed /\ pc \notin Terminal
    /\ peerClosed' = TRUE
    /\ UNCHANGED <<pc, sock, conn, stream, rst, sent, wire, attacks, data,
                   message, entered, lastInput, inputParity, looped, netops, printed,
                   eosSeen, afterEos>>

(* ---- main() ---- *)
ConnectRetry ==
    /\ pc = "connect"
    /\ \/ pc' = "recv_room" /\ sock' = sock /\ conn' = "established"
       \/ pc' = "connect" /\ sock' = sock /\ conn' = "refused"
    /\ UNCHANGED <<stream, peerClosed, rst, sent, wire, attacks, data, message, entered,
                   lastInput, inputParity, looped, netops, printed, eosSeen, afterEos>>

\* s.connect((HOST, PORT))
Connect ==
    /\ pc = "connect"
    /\ \/ pc' = "recv_room" /\ sock' = sock /\ conn' = "established"
       \/ Raise /\ conn' = "refused"
    /\ UNCHANGED <<stream, peerClosed, rst, sent, wire, attacks, data,
                   message, entered, lastInput, inputParity, looped, netops, printed,
                   eosSeen, afterEos>>

\* one receive_message(s) call: the outcomes the bytes in flight allow; after
\* a write to a closed peer, recv may also raise ConnectionResetError
RecvOutcomes ==
    LET r == ReceiveMessage(Flatten(stream), peerClosed) IN
    (IF r.kind = "block" THEN {} ELSE {r})
        \cup (IF rst
              THEN {[kind |-> "raise", value |-> None, used |-> 0, message |-> <<>>]}
              ELSE {})

\* the effect every receive_message call has
Received(r) ==
    /\ stream' = DropBytes(stream, r.used)
    /\ netops' = Append(netops, "recv")
    /\ Started("recv")
    /\ eosSeen' = (eosSeen \/ (r.kind = "return" /\ r.value.isNone))
    /\ data' = IF r.kind = "return" THEN r.value ELSE data
    /\ message' = r.message
    /\ UNCHANGED <<conn, peerClosed, rst, sent, wire, attacks, entered, lastInput,
                   inputParity>>

\* print(receive_message(s)), then on to the next input()
ReceivePrompt(from, to) ==
    /\ pc = from
    /\ \E r \in RecvOutcomes :
        /\ Received(r)
        /\ IF r.kind = "raise"
           THEN Raise /\ printed' = printed
           ELSE /\ pc' = to /\ sock' = sock
                /\ printed' = IF r.value.isNone THEN "None" ELSE "line"
    /\ looped' = looped

\* send_message(s, message): sendall returns, or raises on a closed peer
SendMessage(msg, to) ==
    /\ netops' = Append(netops, "send")
    /\ \/ /\ sent' = Append(sent, msg)
          /\ wire' = Append(wire, SendBytes(msg))
          /\ rst' = (rst \/ peerClosed)
          /\ pc' = to /\ sock' = sock
       \/ /\ peerClosed
          /\ Raise
          /\ UNCHANGED <<sent, wire, rst>>

\* x = input(); send_message(s, x), for x one of room_name, username
InputAndSend(from, to, x) ==
    /\ pc = from
    /\ \E text \in Names :
        /\ lastInput' = text
        /\ entered' = [entered EXCEPT ![x] = Some(text)]
        /\ SendMessage(text, to)
    /\ inputParity' = 1 - inputParity
    /\ afterEos' = IF eosSeen THEN afterEos \cup {"input", "send"} ELSE afterEos
    /\ UNCHANGED <<conn, stream, peerClosed, attacks, data, message, looped, printed,
                   eosSeen>>

ReceiveRoomPrompt == ReceivePrompt("recv_room", "input_room")

SendRoomNameSkipPrompt == InputAndSend("input_room", "input_user", "room_name")

SendRoomName == InputAndSend("input_room", "recv_user", "room_name")

ReceiveUserPrompt == ReceivePrompt("recv_user", "input_user")

SendUsername == InputAndSend("input_user", "recv_lobby", "username")

IsRejectionWrongLiteral(value) ==
    value.text = <<78, 111, 32, 114, 111, 111, 109, 32, 105, 110, 32, 116, 104, 101, 32,
                   108, 111, 98, 98, 121>>

\* data == "No room in lobby"
IsRejection(value) == value.text = NoRoomInLobby

\* data = receive_message(s) and the two checks after it
LobbyStatus ==
    /\ pc = "recv_lobby"
    /\ \E r \in RecvOutcomes :
        /\ Received(r)
        /\ IF r.kind = "raise" THEN Raise /\ printed' = printed
           ELSE IF r.value.isNone THEN Return /\ printed' = "closed"
           ELSE IF IsRejection(r.value) THEN Return /\ printed' = "noroom"
           ELSE pc' = "input_attack" /\ sock' = sock /\ printed' = "line"
    /\ looped' = (pc' = "input_attack")

\* the loop body up to send_message: input(), int(), json.dumps, send_message
AttackPrompt ==
    /\ pc = "input_attack"
    /\ \E user_input \in AttackInputs :
        LET parsed == IntParse(user_input) IN
        /\ lastInput' = user_input
        /\ inputParity' = 1 - inputParity
        /\ IF ~parsed.ok
           THEN /\ printed' = "invalid"
                /\ afterEos' = IF eosSeen THEN afterEos \cup {"input"} ELSE afterEos
                /\ UNCHANGED <<pc, sock, sent, wire, rst, netops, attacks>>
           ELSE /\ Len(attacks) < MaxRounds
                /\ SendMessage(JsonDumpsAttack(parsed.value), "recv_attack")
                /\ attacks' = IF pc' = "recv_attack"
                              THEN Append(attacks, parsed.value) ELSE attacks
                /\ afterEos' = IF eosSeen THEN afterEos \cup {"input", "send"}
                               ELSE afterEos
                /\ printed' = printed
    /\ UNCHANGED <<conn, stream, peerClosed, data, message, entered, looped, eosSeen>>

AttackReplyFalsy ==
    /\ pc = "recv_attack"
    /\ \E r \in RecvOutcomes :
        /\ Received(r)
        /\ IF r.kind = "raise" THEN Raise /\ printed' = printed
           ELSE IF r.value.isNone \/ r.value.text = <<>>
           THEN Return /\ printed' = "closed"
           ELSE pc' = "input_attack" /\ sock' = sock /\ printed' = "received"
    /\ looped' = looped

AttackReplyContinue ==
    /\ pc = "recv_attack"
    /\ \E r \in RecvOutcomes :
        /\ Received(r)
        /\ IF r.kind = "raise" THEN Raise /\ printed' = printed
           ELSE /\ pc' = "input_attack" /\ sock' = sock
                /\ printed' = IF r.value.isNone THEN "closed" ELSE "received"
    /\ looped' = looped

\* data = receive_message(s) in the loop and the check after it
AttackReply ==
    /\ pc = "recv_attack"
    /\ \E r \in RecvOutcomes :
        /\ Received(r)
        /\ IF r.kind = "raise" THEN Raise /\ printed' = printed
           ELSE IF r.value.isNone THEN Return /\ printed' = "closed"
           ELSE pc' = "input_attack" /\ sock' = sock /\ printed' = "received"
    /\ looped' = looped

\* KeyboardInterrupt while main() waits in connect, input, recv or sendall
Interrupt ==
    /\ pc \notin Terminal
    /\ Raise
    /\ UNCHANGED <<conn, stream, peerClosed, rst, sent, wire, attacks, data,
                   message, entered, lastInput, inputParity, looped, netops, printed,
                   eosSeen, afterEos>>

Next ==
    \/ PeerSend
    \/ PeerClose
    \/ Connect
    \/ ReceiveRoomPrompt
    \/ SendRoomName
    \/ ReceiveUserPrompt
    \/ SendUsername
    \/ LobbyStatus
    \/ AttackPrompt
    \/ AttackReply
    \/ Interrupt

Spec == Init /\ [][Next]_vars

\* an input() at the attack prompt that is followed by send_message
AttackSubmitted == AttackPrompt /\ pc' # pc

\* the next step of main() past its current position (main() is sequential:
\* at each position at most one of these is enabled)
ClientProgress ==
    \/ ReceiveRoomPrompt
    \/ SendRoomName
    \/ ReceiveUserPrompt
    \/ SendUsername
    \/ LobbyStatus
    \/ AttackSubmitted
    \/ AttackReply

AllPcs ==
    {"connect", "recv_room", "input_room", "recv_user", "input_user", "recv_lobby",
     "input_attack", "recv_attack", "done", "raised"}

\* main() can take its next step: it waits in input(), or in a
\* receive_message call that can end because the peer has closed or the
\* stream holds a newline or a byte that does not decode
ProgressReady ==
    \/ pc \in {"input_room", "input_user"}
    \/ pc = "input_attack" /\ Len(attacks) < MaxRounds
    \/ /\ pc \in {"recv_room", "recv_user", "recv_lobby", "recv_attack"}
       /\ \/ peerClosed
          \/ \E i \in 1..Len(stream) : \E k \in 1..Len(stream[i]) :
                 stream[i][k] = NL \/ stream[i][k] >= 128

\* ProgressReady is the enabling condition of ClientProgress
ProgressReadyIsEnabled == ProgressReady <=> ENABLED <<ClientProgress>>_vars

\* main() leaves its current position
MainAdvances == ProgressReady /\ pc' \in AllPcs

\* Every receive_message call ends once the stream holds a line or the peer
\* has closed; the operator answers every input(), and at the attack prompt
\* eventually with an integer.  The peer and the interrupt owe nothing.
LiveSpec == Init /\ [][Next]_vars /\ WF_pc(MainAdvances)

(* ---- notions the properties are stated in ---- *)
RecvPcs == {"recv_room", "recv_user", "recv_lobby", "recv_attack"}

\* this step is a receive_message call that returned (a line or None)
RecvReturned == pc \in RecvPcs /\ netops' # netops /\ pc' # "raised"

\* this step is one input() call
InputRead == inputParity' # inputParity

\* the text is an integer in decimal: spaces around it, an optional sign, digits
IsIntegerText(text) ==
    \E i \in 1..Len(text) : \E j \in i..Len(text) :
        /\ \A k \in 1..Len(text) : (k < i \/ k > j) => text[k] = 32
        /\ \/ /\ text[i] \in {43, 45} /\ i < j
              /\ \A k \in (i + 1)..j : IsDigit(text[k])
           \/ \A k \in i..j : IsDigit(text[k])

\* the integer a run of decimal digits denotes
RECURSIVE DigitRunValue(_)
DigitRunValue(d) ==
    IF d = <<>> THEN 0
    ELSE 10 * DigitRunValue(SubSeq(d, 1, Len(d) - 1)) + (d[Len(d)] - 48)

\* d is the decimal numeral of n as JSON writes it: no plus sign, no leading
\* zero, no "-0"
IsJsonNumeral(d, n) ==
    LET m == IF d # <<>> /\ d[1] = 45 THEN Tail(d) ELSE d IN
    /\ m # <<>>
    /\ \A k \in 1..Len(m) : IsDigit(m[k])
    /\ (Len(m) > 1 => m[1] # 48)
    /\ (d[1] = 45 => DigitRunValue(m) # 0)
    /\ n = IF d[1] = 45 THEN 0 - DigitRunValue(m) ELSE DigitRunValue(m)

\* the integer an integer text denotes
IntegerOf(text) ==
    LET body == SelectSeq(text, LAMBDA c : IsDigit(c))
        neg == \E k \in 1..Len(text) : text[k] = 45
    IN  IF neg THEN 0 - DigitRunValue(body) ELSE DigitRunValue(body)

\* bytes is the line {"attack": n} followed by one newline
IsAttackLine(bytes, n) ==
    /\ Len(bytes) >= 14
    /\ SubSeq(bytes, 1, 11) = <<123, 34, 97, 116, 116, 97, 99, 107, 34, 58, 32>>
    /\ SubSeq(bytes, Len(bytes) - 1, Len(bytes)) = <<125, NL>>
    /\ IsJsonNumeral(SubSeq(bytes, 12, Len(bytes) - 2), n)

(* ---- C1 ---- *)
\* C1: the network operations of a run strictly alternate, starting with a
\* receive: no two sends and no two receives follow one another, and none
\* happens before connect.
C1_Alternation ==
    /\ \A i \in 1..Len(netops) : netops[i] = IF i % 2 = 1 THEN "recv" ELSE "send"
    /\ (conn # "established" => netops = <<>>)

\* a whole session: handshake, one attack round, end-of-stream
C1_Witness == pc = "done" /\ Len(netops) = 7 /\ Len(attacks) = 1

(* ---- C2 ---- *)
\* C2: once a receive_message call has returned None, at any of the four
\* receive points, the session is over: main() has returned, and no input()
\* and no send_message was started after it.
C2_EosTerminates ==
    eosSeen => (pc = "done" /\ afterEos \cap {"input", "send"} = {})

(* ---- C3 ---- *)
\* C3: when the third receive_message returns "No room in lobby", main()
\* returns with the socket closed, having sent exactly two lines (the room
\* name, then the username) and without having entered the attack loop; and
\* nothing happens after it returned.
C3_LobbyRejection ==
    /\ [][(RecvReturned /\ pc = "recv_lobby" /\ data' = Some(NoRoomInLobby))
            => /\ pc' = "done" /\ sock' = "closed"
               /\ entered'.room_name # None /\ entered'.username # None
               /\ sent' = <<entered'.room_name.text, entered'.username.text>>
               /\ Len(wire') = 2
               /\ attacks' = <<>> /\ ~looped']_vars
    /\ [][pc = "done" => UNCHANGED vars]_vars

C3_Witness ==
    /\ pc = "done" /\ printed = "noroom" /\ data = Some(NoRoomInLobby)
    /\ sent = <<<<>>, <<32, 233>>>>

(* ---- C4 ---- *)
\* C4: at the attack prompt, an input that is not an integer leaves the lines
\* sent and the server stream as they were, starts no network operation, and
\* leaves the client at the prompt.
C4_InvalidInputIsLocal ==
    [][(pc = "input_attack" /\ InputRead /\ ~IsIntegerText(lastInput'))
         => /\ sent' = sent /\ wire' = wire
            /\ stream' = stream /\ netops' = netops
            /\ pc' = "input_attack" /\ printed' = "invalid"]_vars

\* "7.0" was typed after a round that had sent {"attack": 7}
C4_Witness ==
    /\ pc = "input_attack" /\ printed = "invalid" /\ lastInput = <<55, 46, 48>>
    /\ Len(wire) = 3 /\ stream # <<>>

(* ---- C5 ---- *)
\* C5: an integer n typed at the attack prompt puts exactly one more line on
\* the wire, {"attack": n} and a newline (unless sendall fails); the next
\* network operation is one receive; and if that receive returns None,
\* main() reports the close and returns, after which nothing is written.
C5_AttackRound ==
    /\ [][(pc = "input_attack" /\ InputRead /\ IsIntegerText(lastInput')
                /\ pc' # "raised")
            => /\ Len(wire') = Len(wire) + 1
               /\ SubSeq(wire', 1, Len(wire)) = wire
               /\ IsAttackLine(wire'[Len(wire')], IntegerOf(lastInput'))
               /\ pc' = "recv_attack"]_vars
    /\ [][(pc = "recv_attack" /\ pc' # "raised" /\ pc' # pc)
            => netops' = Append(netops, "recv") /\ wire' = wire]_vars
    /\ [][(pc = "recv_attack" /\ RecvReturned /\ data'.isNone)
            => pc' = "done" /\ printed' = "closed" /\ wire' = wire]_vars
    /\ [][pc = "done" => wire' = wire /\ netops' = netops]_vars

\* " -13 " was typed, {"attack": -13} sent, and the reply was end-of-stream
C5_Witness ==
    /\ pc = "done" /\ printed = "closed" /\ attacks = <<0 - 13>>
    /\ wire[3] = <<123, 34, 97, 116, 116, 97, 99, 107, 34, 58, 32, 45, 49, 51, 125, NL>>

(* ---- C6 ---- *)
NoNewline(bytes) == \A k \in 1..Len(bytes) : bytes[k] # NL

\* C6: a receive_message call on a stream the peer has closed, with no
\* newline among the bytes still to read, returns None and does not raise,
\* whatever those bytes are; the bytes are consumed and not returned.
C6_EosBeforeNewline ==
    [][(pc \in RecvPcs /\ netops' # netops /\ peerClosed /\ ~rst
            /\ NoNewline(Flatten(stream)))
         => pc' # "raised" /\ data' = None /\ stream' = <<>>]_vars

(* ---- C7 ---- *)
\* the bytes before the first newline
LineBytes(bytes) ==
    LET n == CHOOSE k \in 1..Len(bytes) :
                 bytes[k] = NL /\ \A j \in 1..(k - 1) : bytes[j] # NL
    IN  SubSeq(bytes, 1, n - 1)

\* t is line without its trailing whitespace
IsRightTrimOf(t, line) ==
    \E j \in 0..Len(line) :
        /\ t = SubSeq(line, 1, j)
        /\ \A k \in (j + 1)..Len(line) : IsWhitespace(line[k])
        /\ (j > 0 => ~IsWhitespace(line[j]))

\* t is line without its leading and its trailing whitespace
IsTrimOf(t, line) ==
    \E i \in 0..Len(line) : \E j \in i..Len(line) :
        /\ t = SubSeq(line, i + 1, j)
        /\ \A k \in 1..i : IsWhitespace(line[k])
        /\ \A k \in (j + 1)..Len(line) : IsWhitespace(line[k])
        /\ (j > i => ~IsWhitespace(line[i + 1]) /\ ~IsWhitespace(line[j]))

\* C7 as stated: a line the peer delivered is returned without its newline
\* and trailing whitespace, and otherwise unchanged (leading whitespace kept).
C7_TrailingOnly ==
    [][(RecvReturned /\ ~data'.isNone)
         => IsRightTrimOf(data'.text, LineBytes(Flatten(stream)))]_vars

\* C7, amended: a line the peer delivered is returned without its newline
\* and without its leading and trailing whitespace; what lies between is kept.
C7_BothEndsStripped ==
    [][(RecvReturned /\ ~data'.isNone)
         => IsTrimOf(data'.text, LineBytes(Flatten(stream)))]_vars

\* " No room in lobby\n" was read as an attack reply and "No room in lobby"
\* returned
C7_Witness ==
    /\ message = <<32>> \o NoRoomInLobby \o <<NL>> /\ data = Some(NoRoomInLobby)
    /\ pc = "input_attack" /\ printed = "received"

(* ---- C8 ---- *)
\* C8: every send_message(sock, s) with no newline in s wrote bytes that end
\* in the only newline they contain, and the bytes before it decode to s.
C8_Framing ==
    /\ Len(wire) = Len(sent)
    /\ \A i \in 1..Len(sent) :
        NoNewline(sent[i]) =>
            /\ wire[i] # <<>> /\ wire[i][Len(wire[i])] = NL
            /\ NoNewline(SubSeq(wire[i], 1, Len(wire[i]) - 1))
            /\ Utf8Decode(LineBytes(wire[i])) = [ok |-> TRUE, text |-> sent[i]]

\* the empty name, the name with U+00E9 and a JSON payload were sent
C8_Witness ==
    /\ Len(wire) = 3
    /\ sent[1] = <<>> /\ wire[1] = <<NL>>
    /\ sent[2] = <<32, 233>> /\ wire[2] = <<32, 195, 169, NL>>

(* ---- C9 ---- *)
\* C9: main() has ended, by return or by exception, exactly when the socket
\* is closed, and once it is closed nothing is sent, received or read from
\* the stream.
C9_ClosedOnExit ==
    /\ [](pc \in Terminal <=> sock = "closed")
    /\ [][sock = "closed"
            => netops' = netops /\ wire' = wire /\ stream' = stream]_vars

\* the first send_message raised
C9_Witness ==
    /\ pc = "raised" /\ sock = "closed"
    /\ netops = <<"recv", "send">> /\ sent = <<>>

(* ---- C10 ---- *)
\* C10: after a failed connect main() has ended with an exception, no
\* receive, send or input() has happened, and nothing happens any more.
C10_ConnectFatal ==
    /\ [](conn = "refused"
            => /\ pc = "raised" /\ sock = "closed"
               /\ netops = <<>> /\ wire = <<>> /\ inputParity = 0)
    /\ [][conn = "refused" => UNCHANGED vars]_vars

C10_Witness == conn = "refused" /\ pc = "raised" /\ sock = "closed"

(* ---- C11 ---- *)
HasNewline(bytes) == \E k \in 1..Len(bytes) : bytes[k] = NL

\* C11: when the next line in the stream is valid UTF-8, receive_message
\* returns its text (trimmed) and does not raise, multi-byte characters
\* included.
C11_Utf8Lines ==
    [][(pc \in RecvPcs /\ netops' # netops /\ ~rst
            /\ HasNewline(Flatten(stream))
            /\ Utf8Decode(LineBytes(Flatten(stream))).ok)
         => /\ pc' # "raised"
            /\ ~data'.isNone
            /\ IsTrimOf(data'.text, Utf8Decode(LineBytes(Flatten(stream))).text)]_vars

(* ---- C12 ---- *)
\* the transitions of the session state machine, and the ways out of it
SessionTransitions ==
    {<<"connect", "recv_room">>, <<"recv_room", "input_room">>,
     <<"input_room", "recv_user">>, <<"recv_user", "input_user">>,
     <<"input_user", "recv_lobby">>, <<"recv_lobby", "input_attack">>,
     <<"recv_lobby", "done">>, <<"input_attack", "recv_attack">>,
     <<"recv_attack", "input_attack">>, <<"recv_attack", "done">>}

\* this step is a send_message call
SendCalled == netops' # netops /\ pc \notin RecvPcs

\* C12: the session moves only along the state machine (or out of it by an
\* exception); the room name is sent only after the first receive returned a
\* line, the username only after the room name and after the second receive
\* returned a line, and an attack payload only after both were sent and the
\* lobby status was a line other than "No room in lobby".
C12_StateMachine ==
    /\ [][pc' # pc => (<<pc, pc'>> \in SessionTransitions \/ pc' = "raised")]_vars
    /\ [][(SendCalled /\ pc = "input_room")
            => netops = <<"recv">> /\ ~data.isNone]_vars
    /\ [][(SendCalled /\ pc = "input_user")
            => /\ netops = <<"recv", "send", "recv">> /\ ~data.isNone
               /\ Len(sent) = 1]_vars
    /\ [][(pc = "recv_lobby" /\ pc' = "input_attack")
            => ~data'.isNone /\ data'.text # NoRoomInLobby /\ Len(sent) = 2]_vars
    /\ [][(SendCalled /\ pc \notin {"input_room", "input_user"})
            => pc = "input_attack" /\ looped /\ Len(sent) >= 2]_vars

(* ---- C13 ---- *)
\* C13: in the attack loop every reply that is a complete line, whatever its
\* content, is displayed and followed by the attack prompt; main() returns
\* from the loop only when the reply is end-of-stream.
C13_LoopLeavesOnlyOnEos ==
    /\ [][(pc = "recv_attack" /\ netops' # netops /\ ~rst
                /\ HasNewline(Flatten(stream)))
            => pc' = "input_attack" /\ printed' = "received" /\ sock' = sock]_vars
    /\ [][(looped /\ pc' = "done" /\ pc # "done")
            => pc = "recv_attack" /\ data'.isNone]_vars

(* ---- C15 ---- *)
\* the next line in the stream is empty or whitespace only
BlankLineNext ==
    /\ HasNewline(Flatten(stream))
    /\ \A k \in 1..Len(LineBytes(Flatten(stream))) :
           IsWhitespace(LineBytes(Flatten(stream))[k])

\* C15: a line that is empty or whitespace only is returned as the empty
\* string, which is not None; at the lobby status and in the attack loop the
\* client displays it and goes to the attack prompt, and does not report a
\* closed connection.
C15_BlankLineIsNotEos ==
    /\ [][(RecvReturned /\ BlankLineNext)
            => data' = Some(<<>>) /\ data' # None /\ eosSeen' = eosSeen]_vars
    /\ [][(RecvReturned /\ BlankLineNext /\ pc \in {"recv_lobby", "recv_attack"})
            => /\ pc' = "input_attack" /\ sock' = "open"
               /\ printed' \in {"line", "received"}]_vars

\* " \n" was the attack reply and the client is back at the prompt
C15_Witness ==
    /\ message = <<32, NL>> /\ data = Some(<<>>)
    /\ pc = "input_attack" /\ printed = "received" /\ ~eosSeen

(* ---- C16 ---- *)
\* C16: a receive_message call that returns a line has read the bytes up to
\* and including the first newline and no others: what it read followed by
\* what is left in the stream is what was in the stream; a call that returns
\* None leaves nothing in the stream.
C16_OneLinePerCall ==
    /\ [][(RecvReturned /\ ~data'.isNone)
            => /\ Flatten(stream) =
                      LineBytes(Flatten(stream)) \o <<NL>> \o Flatten(stream')
               /\ Utf8Encode(message') = LineBytes(Flatten(stream)) \o <<NL>>]_vars
    /\ [][(RecvReturned /\ data'.isNone) => stream' = <<>>]_vars

\* " a \n" was returned as the username prompt while "No room in lobby\n",
\* queued behind it, is still in the stream
C16_Witness ==
    /\ pc = "input_user" /\ message = <<32, 97, 32, NL>> /\ data = Some(<<97>>)
    /\ stream = <<NoRoomInLobby \o <<NL>>>>

(* ---- C14 ---- *)
\* attack rounds still needed to use up what the closed peer left in the
\* stream and then meet end-of-stream
RoundsNeeded == Len(stream) + (IF pc = "recv_attack" THEN 0 ELSE 1)

\* C14: once the peer has closed (and the operator's attack rounds suffice
\* for what is left in the stream), main() ends with the socket closed.
C14_PeerCloseEndsSession ==
    (peerClosed /\ Len(attacks) + RoundsNeeded <= MaxRounds)
        ~> (pc \in Terminal /\ sock = "closed")

\* the peer closed during the attack loop and main() returned from it
C14_Witness ==
    /\ peerClosed /\ pc = "done" /\ sock = "closed"
    /\ looped /\ Len(attacks) = 1 /\ printed = "closed"

====
